---- MODULE Spec2Model ----
(***************************************************************************)
(* A model of cma/store.py: the transactional batch Store that sits        *)
(* between Python objects and a Neo4j graph.  One Store, its client        *)
(* objects (instances of one class that is uniquely indexed on its 'name'  *)
(* attribute, as the Drone class of testme), and the graph database        *)
(* behind it.                                                              *)
(*                                                                         *)
(* Every method of the Store is a pure operator from a program state `s`   *)
(* (a record of the Store's fields, the objects and the database) to the   *)
(* state after the call; s.err names the exception the call raised ("" if  *)
(* it returned) and s.ret is what it returned.  An action applies one      *)
(* public method to the current state.                                     *)
(*                                                                         *)
(* Python dicts iterate in an order fixed by the objects' hashes; the      *)
(* model iterates object slots in ascending order and lets every new       *)
(* object take any free slot, which covers every iteration order.          *)
(***************************************************************************)
EXTENDS Integers, Sequences, FiniteSets, TLC

\* ------------------------------------------------------------------ bounds
\* Object slots, node ids, relationship ids, and the number of calls explored
MaxObj == 2
MaxNode == 4
MaxRel == 2
MaxSteps == 5
\* ... and the number explored of a Store that only saves, loads, writes and commits
MaxRetrySteps == 7
\* ... and of a Store that only loads, writes, deletes, separates and commits
MaxGraphSteps == 6
\* ... and of a Store, told of any class, that only saves, loads and commits
MaxClassSteps == 4
\* ... and of a Store that only loads or creates, writes, commits and aborts
MaxLoadSteps == 5
\* ... and of two Stores that save the same objects
MaxOwnerSteps == 4
\* ... and of a Store that is only queried, written to and committed
MaxQuerySteps == 4
\* ... and of a Store that only loads, relates, separates and commits
MaxSeparateSteps == 5
\* ... and of a Store that only saves, writes, refreshes, commits and aborts
MaxPersistSteps == 6
\* The most rows a query returns
MaxRows == 2
\* ... and of a Store that only saves, loads, relates and commits
MaxRelateSteps == 5
\* ... and of a Store that only loads, writes and commits
MaxUpdateSteps == 7

Obj == 1..MaxObj
NodeId == 1..MaxNode
RelId == 1..MaxRel
\* _id values of nodes and of relationships are drawn from the same integers
AnyId == 1..(IF MaxNode > MaxRel THEN MaxNode ELSE MaxRel)

\* ------------------------------------------------------------------ values
\* Values an attribute can hold: two proper property values, None, and the
\* empty list.  Absent marks an attribute (or node property) that is not there.
PVal == {"x", "y"}
NoneVal == "None"
EmptySeq == "[]"
Absent == "absent"
\* The values the application writes: 'name' is renamed, 'c' is given a
\* value, None or an empty list
WriteVal(a) == IF a = "name" THEN PVal ELSE {"x", NoneVal, EmptySeq}

\* Public attributes: 'name' is a constructor argument and the index value
\* attribute ('vattr'); 'c' is an attribute added after construction.
Attr == {"name", "c"}
RelType == {"T", "U"}
AttrOrder == <<"c", "name">>
NoProps == [a \in Attr |-> Absent]

VARIABLES other, readonly, newneo, classkeymap, uniqueindexmap, clients, newrels, deletions, weaknoderefs, batch, batchindex, obj, nodes, rels, index, last, steps

vars == <<other, readonly, newneo, classkeymap, uniqueindexmap, clients, newrels, deletions, weaknoderefs, batch, batchindex, obj, nodes, rels, index, last, steps>>

\* ------------------------------------------------------------------ objects
\* A Python object slot.  hasStore: the _Store__store, _Store__store_node,
\* _Store__store_batchindex and _Store__store_index* attributes are present;
\* hasDirty: _Store__store_dirty_attrs is present.  bound/kind/id/props are the
\* object's neo4j node: props are the properties of an abstract node (a bound
\* node's properties are read from the database).
BlankObj == [live |-> FALSE, attrs |-> NoProps, hasStore |-> FALSE, store |-> 0, hasDirty |-> FALSE, dirty |-> {}, bound |-> FALSE, kind |-> "node", id |-> 0, props |-> NoProps, batchindex |-> -1, index |-> FALSE, unique |-> FALSE, ivalue |-> Absent]

\* What the last call was and did (history, for the properties): its name and
\* arguments, the exception it raised, what it returned, and for commit the
\* pending work as it was before the call and the jobs that were submitted.
NoSnap == [clients |-> {}, newrels |-> <<>>, deletions |-> <<>>, dirty |-> [o \in Obj |-> {}], abstract |-> {}, attrs |-> [o \in Obj |-> NoProps]]

NoLast == [aborted |-> {}, maxcount |-> -1, rows |-> <<>>, left |-> <<>>, closed |-> FALSE, type |-> "", to |-> 0, op |-> "init", err |-> "", ret |-> <<>>, retnodes |-> <<>>, prev |-> <<>>, o |-> 0, attr |-> "", val |-> "", old |-> "", wasDirty |-> {}, wasClient |-> FALSE, submitted |-> <<>>, built |-> 0, accept |-> FALSE, retry |-> FALSE, had |-> 0, sent |-> 0, pre |-> NoSnap, weak |-> [id \in AnyId |-> 0]]

\* The program state as one record, for the operators below.
Cur == [me |-> 1, readonly |-> readonly, newneo |-> newneo, classkeymap |-> classkeymap, uniqueindexmap |-> uniqueindexmap, clients |-> clients, newrels |-> newrels, deletions |-> deletions, weaknoderefs |-> weaknoderefs, batch |-> batch, batchindex |-> batchindex, obj |-> obj, nodes |-> nodes, rels |-> rels, index |-> index, err |-> "", ret |-> <<>>, retnodes |-> <<>>, prev |-> <<>>, submitted |-> <<>>, built |-> 0, free |-> <<>>, left |-> <<>>]

Raise(s, e) == [s EXCEPT !.err = e]

Ok(s) == s.err = ""

\* weaknoderefs[id]: 0 = no entry, -1 = an entry whose object has been
\* collected (the weak reference returns None), o = a live object.
WeakLive(s, id) == IF s.weaknoderefs[id] > 0 THEN s.weaknoderefs[id] ELSE 0

\* node.get_properties() of the node of object o
NodeProps(s, o) ==
    IF ~s.obj[o].bound THEN s.obj[o].props
    ELSE IF s.obj[o].kind = "node" /\ s.obj[o].id \in NodeId /\ s.nodes[s.obj[o].id].state = "live" THEN s.nodes[s.obj[o].id].props
    ELSE NoProps

\* Store.is_abstract
is_abstract(s, o) == IF ~s.obj[o].hasStore THEN TRUE ELSE ~s.obj[o].bound

\* Store._safe_attr_names
_safe_attr_names(s, o) == {a \in Attr : s.obj[o].attrs[a] # Absent}

\* Store.safe_attrs, as the properties of neo4j.Node(**safe_attrs(subj)):
\* a property given as None is not stored on the node.
safe_attrs(s, o) == [a \in Attr |-> IF s.obj[o].attrs[a] = NoneVal THEN Absent ELSE s.obj[o].attrs[a]]

\* Store._proper_attr_value: the types neo4j accepts (str, numbers, list, tuple)
ProperValue(v) == v \in PVal \cup {EmptySeq}

\* Store.transaction_pending
transaction_pending(s) == Cardinality(s.clients) + Len(s.newrels) + Len(s.deletions) > 0

\* ------------------------------------------------------------------ _register
\* Store._register(subj, node): node is [bound, kind, id, props]
\* the identity map part: a dead entry is dropped, a live one is an error
RegisterWeak(s, o, id) ==
    IF s.weaknoderefs[id] > 0 THEN Raise(s, "AssertionError")
    ELSE [s EXCEPT !.weaknoderefs[id] = o]

\* _register without its assertion that the object has no _Store__store
register_NoOwnerTest(s, o, node, idx, uniq, ival) ==
    IF o \in s.clients THEN Raise(s, "AssertionError")
    ELSE IF ~node.bound THEN [s EXCEPT !.clients = @ \cup {o}, !.obj[o] = [@ EXCEPT !.hasStore = TRUE, !.store = s.me, !.hasDirty = TRUE, !.dirty = {}, !.bound = node.bound, !.kind = node.kind, !.id = node.id, !.props = node.props, !.batchindex = -1, !.index = idx, !.unique = uniq, !.ivalue = ival]]
    ELSE RegisterWeak([s EXCEPT !.clients = @ \cup {o}, !.obj[o] = [@ EXCEPT !.hasStore = TRUE, !.store = s.me, !.hasDirty = TRUE, !.dirty = {}, !.bound = node.bound, !.kind = node.kind, !.id = node.id, !.props = node.props, !.batchindex = -1, !.index = idx, !.unique = uniq, !.ivalue = ival]], o, node.id)

_register(s, o, node, idx, uniq, ival) ==
    IF s.obj[o].hasStore THEN Raise(s, "AssertionError")
    ELSE IF o \in s.clients THEN Raise(s, "AssertionError")
    ELSE IF ~node.bound THEN [s EXCEPT !.clients = @ \cup {o}, !.obj[o] = [@ EXCEPT !.hasStore = TRUE, !.store = s.me, !.hasDirty = TRUE, !.dirty = {}, !.bound = node.bound, !.kind = node.kind, !.id = node.id, !.props = node.props, !.batchindex = -1, !.index = idx, !.unique = uniq, !.ivalue = ival]]
    ELSE RegisterWeak([s EXCEPT !.clients = @ \cup {o}, !.obj[o] = [@ EXCEPT !.hasStore = TRUE, !.store = s.me, !.hasDirty = TRUE, !.dirty = {}, !.bound = node.bound, !.kind = node.kind, !.id = node.id, !.props = node.props, !.batchindex = -1, !.index = idx, !.unique = uniq, !.ivalue = ival]], o, node.id)

AbstractNode(props) == [bound |-> FALSE, kind |-> "node", id |-> 0, props |-> props]

BoundNode(id) == [bound |-> TRUE, kind |-> "node", id |-> id, props |-> NoProps]

\* ------------------------------------------------------------------ _storesetattr
\* _storesetattr without its test for an unchanged value
storesetattr_NoEqualTest(s, o, name, value) ==
    IF ~s.obj[o].hasDirty THEN [s EXCEPT !.obj[o].attrs[name] = value]
    ELSE IF ~s.obj[o].hasStore THEN Raise(s, "AttributeError")
    ELSE IF s.readonly THEN Raise(s, "RuntimeError")
    ELSE IF value = EmptySeq THEN Raise(s, "ValueError")
    ELSE [s EXCEPT !.obj[o].dirty = @ \cup {name}, !.clients = @ \cup {o}, !.obj[o].attrs[name] = value]

\* _storesetattr marking the attribute dirty before it tests the write
storesetattr_MarkFirst(s, o, name, value) ==
    IF ~s.obj[o].hasDirty THEN [s EXCEPT !.obj[o].attrs[name] = value]
    ELSE IF s.obj[o].attrs[name] # Absent /\ s.obj[o].attrs[name] = value THEN s
    ELSE IF ~s.obj[o].hasStore THEN Raise(s, "AttributeError")
    ELSE IF s.readonly THEN Raise([s EXCEPT !.obj[o].dirty = @ \cup {name}, !.clients = @ \cup {o}], "RuntimeError")
    ELSE IF value = EmptySeq THEN Raise([s EXCEPT !.obj[o].dirty = @ \cup {name}, !.clients = @ \cup {o}], "ValueError")
    ELSE [s EXCEPT !.obj[o].dirty = @ \cup {name}, !.clients = @ \cup {o}, !.obj[o].attrs[name] = value]

\* _storesetattr without its entry of the object into the clients
storesetattr_NoClient(s, o, name, value) ==
    IF ~s.obj[o].hasDirty THEN [s EXCEPT !.obj[o].attrs[name] = value]
    ELSE IF s.obj[o].attrs[name] # Absent /\ s.obj[o].attrs[name] = value THEN s
    ELSE IF ~s.obj[o].hasStore THEN Raise(s, "AttributeError")
    ELSE IF s.readonly THEN Raise(s, "RuntimeError")
    ELSE IF value = EmptySeq THEN Raise(s, "ValueError")
    ELSE [s EXCEPT !.obj[o].dirty = @ \cup {name}, !.obj[o].attrs[name] = value]

\* Store._storesetattr(objself, name, value) for a public attribute name
_storesetattr(s, o, name, value) ==
    IF ~s.obj[o].hasDirty THEN [s EXCEPT !.obj[o].attrs[name] = value]
    ELSE IF s.obj[o].attrs[name] # Absent /\ s.obj[o].attrs[name] = value THEN s
    ELSE IF ~s.obj[o].hasStore THEN Raise(s, "AttributeError")
    ELSE IF s.readonly THEN Raise(s, "RuntimeError")
    ELSE IF value = EmptySeq THEN Raise(s, "ValueError")
    ELSE [s EXCEPT !.obj[o].dirty = @ \cup {name}, !.clients = @ \cup {o}, !.obj[o].attrs[name] = value]

\* ------------------------------------------------------------------ save
\* Store.save_indexed(index_name, key, value, subj)
save_indexed(s, ival, o) ==
    IF s.readonly THEN Raise(s, "RuntimeError")
    ELSE _register(s, o, AbstractNode(safe_attrs(s, o)), TRUE, FALSE, ival)

\* Store.save_unique(index_name, key, value, subj)
SetUnique(s, o) == IF Ok(s) THEN [s EXCEPT !.obj[o].unique = TRUE] ELSE s

save_unique(s, ival, o) == SetUnique(save_indexed(s, ival, o), o)

\* Store._get_idx_key_value for an object: the value is the 'name' attribute
IdxValueOf(s, o) == s.obj[o].attrs["name"]

\* Store.save(subj): the class has no index, a unique one or one that is not
Return(s, o) == IF Ok(s) THEN [s EXCEPT !.ret = <<o>>] ELSE s

save(s, o) ==
    IF s.readonly THEN Raise(s, "RuntimeError")
    ELSE IF ~s.classkeymap /\ o \in s.clients THEN Return(s, o)
    ELSE IF ~s.classkeymap THEN Return(_register(s, o, AbstractNode(safe_attrs(s, o)), FALSE, FALSE, Absent), o)
    ELSE IF s.uniqueindexmap THEN Return(save_unique(s, IdxValueOf(s, o), o), o)
    ELSE Return(save_indexed(s, IdxValueOf(s, o), o), o)

\* The application constructs an object of the class: Drone(name=v)
Construct(s, o, props) == [s EXCEPT !.obj[o] = [BlankObj EXCEPT !.live = TRUE, !.attrs = [a \in Attr |-> IF a = "name" /\ props[a] = Absent THEN NoneVal ELSE props[a]]]]

\* ------------------------------------------------------------------ abort
RECURSIVE ClearDirty(_, _)
ClearDirty(s, i) ==
    IF i > MaxObj THEN s
    ELSE IF i \in s.clients THEN ClearDirty([s EXCEPT !.obj[i].hasDirty = TRUE, !.obj[i].dirty = {}], i + 1)
    ELSE ClearDirty(s, i + 1)

\* Store.abort
ClearPending(s) == [s EXCEPT !.clients = {}, !.newrels = <<>>, !.deletions = <<>>, !.weaknoderefs = [id \in AnyId |-> IF @[id] = -1 THEN 0 ELSE IF @[id] > 0 /\ ~s.obj[@[id]].hasStore THEN 0 ELSE @[id]]]

\* abort without its loop over the clients' dirty sets
abort_KeepDirty(s) == ClearPending([s EXCEPT !.batch = [isNone |-> TRUE, jobs |-> <<>>, sent |-> 0], !.batchindex = 0])

abort(s) == ClearPending(ClearDirty([s EXCEPT !.batch = [isNone |-> TRUE, jobs |-> <<>>, sent |-> 0], !.batchindex = 0], 1))


\* ------------------------------------------------------------------ loading
\* Store._update_obj_from_node(subj)
\* its second loop: what the object has and the node lacks becomes dirty
MarkMissing(s, o, missing) ==
    IF missing = {} THEN s
    ELSE IF ~s.obj[o].hasDirty THEN Raise(s, "AttributeError")
    ELSE [s EXCEPT !.obj[o].dirty = @ \cup missing, !.clients = @ \cup {o}]

\* the removal after its first loop (remove_subj is the code's flag)
RemoveClean(s, o, remove_subj) == IF remove_subj /\ o \in s.clients THEN [s EXCEPT !.clients = @ \ {o}] ELSE s

\* its first loop: the node's properties that are not dirty go to the object
CopyProps(s, o, nodeprops) == [s EXCEPT !.obj[o].attrs = [a \in Attr |-> IF nodeprops[a] # Absent /\ a \notin s.obj[o].dirty THEN nodeprops[a] ELSE @[a]]]

UpdateFrom(s, o, nodeprops) ==
    IF (\E a \in Attr : nodeprops[a] # Absent) /\ ~s.obj[o].hasDirty THEN Raise(s, "AttributeError")
    ELSE MarkMissing(RemoveClean(CopyProps(s, o, nodeprops), o, (o \notin s.clients) /\ (\A a \in s.obj[o].dirty : nodeprops[a] = Absent)), o, {a \in Attr : s.obj[o].attrs[a] # Absent /\ nodeprops[a] = Absent})

_update_obj_from_node(s, o) ==
    IF ~s.obj[o].hasStore THEN Raise(s, "AttributeError")
    ELSE UpdateFrom(s, o, NodeProps(s, o))

\* Store.callconstructor(cls, kwargs) into the next free slot: the constructor
\* sets 'name' (None when it is not given); other properties become attributes.
callconstructor(s, props) ==
    IF s.free = <<>> THEN Raise(s, "NoSlot")
    ELSE [Construct(s, Head(s.free), props) EXCEPT !.free = Tail(s.free), !.ret = <<Head(s.free)>>]

\* The properties of database node n (node.get_properties())
DbProps(s, n) == IF n \in NodeId /\ s.nodes[n].state = "live" THEN s.nodes[n].props ELSE NoProps

\* Store._construct_obj_from_node(node, cls, clsargs); clsargs is name=v or
\* nothing (Absent)
\* its loop over clsargs: an argument the constructor left None is set
FillArgs(s, o, v) == IF v # Absent /\ s.obj[o].attrs["name"] = NoneVal THEN [s EXCEPT !.obj[o].attrs["name"] = v] ELSE s

\* its last lines, for the object just constructed (s.ret)
RegisterNew(s, n, v) ==
    IF ~Ok(s) THEN s
    ELSE Return(_register(FillArgs(s, s.ret[1], v), s.ret[1], BoundNode(n), FALSE, FALSE, Absent), s.ret[1])

_construct_obj_from_node(s, n, v) ==
    IF s.weaknoderefs[n] > 0 THEN Return(_update_obj_from_node(s, s.weaknoderefs[n]), s.weaknoderefs[n])
    ELSE RegisterNew(callconstructor([s EXCEPT !.weaknoderefs[n] = 0], DbProps(s, n)), n, v)

\* The search list of _localsearch: the clients, then the live objects of
\* weaknoderefs that are not clients
RECURSIVE ClientSeq(_, _)
ClientSeq(s, i) ==
    IF i > MaxObj THEN <<>>
    ELSE (IF i \in s.clients THEN <<i>> ELSE <<>>) \o ClientSeq(s, i + 1)

RECURSIVE WeakSeq(_, _)
WeakSeq(s, id) ==
    IF id \notin AnyId THEN <<>>
    ELSE (IF s.weaknoderefs[id] > 0 /\ s.weaknoderefs[id] \notin s.clients THEN <<s.weaknoderefs[id]>> ELSE <<>>) \o WeakSeq(s, id + 1)

RECURSIVE FirstMatch(_, _, _)
FirstMatch(s, list, v) ==
    IF list = <<>> THEN 0
    ELSE IF s.obj[Head(list)].attrs["name"] # Absent /\ s.obj[Head(list)].attrs["name"] = v THEN Head(list)
    ELSE FirstMatch(s, Tail(list), v)

\* Store._localsearch(cls, idxkey, idxvalue): the object found, 0 for None,
\* -1 when the assertion on the object found fails
Asserted(s, found) == IF found = 0 THEN 0 ELSE IF ~s.obj[found].hasStore THEN -1 ELSE found

_localsearch(s, v) == Asserted(s, FirstMatch(s, ClientSeq(s, 1) \o WeakSeq(s, 1), v))

\* db.legacy.get_indexed_node(index, key, value): a node of the index entry, 0 for None
RECURSIVE IndexedFrom(_, _, _)
IndexedFrom(s, v, n) ==
    IF n \notin NodeId THEN <<>>
    ELSE (IF <<v, n>> \in s.index THEN <<n>> ELSE <<>>) \o IndexedFrom(s, v, n + 1)

HeadOr0(ns) == IF ns = <<>> THEN 0 ELSE Head(ns)

get_indexed_node(s, v) == HeadOr0(IndexedFrom(s, v, 1))

\* The object the identity map holds for node n before a call (0: none)
Held(s, n) == IF n \in AnyId THEN WeakLive(s, n) ELSE 0

\* Store.load(cls, name=v)
\* What a call returned for node n, and what the identity map held for it
ForNode(s, n, held) == IF Ok(s) THEN [s EXCEPT !.retnodes = @ \o <<n>>, !.prev = @ \o <<held>>] ELSE s

LoadFound(s, v, local, n) ==
    IF local = -1 THEN Raise(s, "AssertionError")
    ELSE IF local > 0 THEN ForNode([s EXCEPT !.ret = <<local>>], IF s.obj[local].bound THEN s.obj[local].id ELSE 0, IF s.obj[local].bound THEN Held(s, s.obj[local].id) ELSE 0)
    ELSE IF n = 0 THEN [s EXCEPT !.ret = <<>>]
    ELSE ForNode(_construct_obj_from_node(s, n, v), n, Held(s, n))

\* after the index value is known: the index must be unique
LoadUnique(s, v) ==
    IF ~Ok(s) THEN s
    ELSE IF ~s.uniqueindexmap THEN Raise(s, "ValueError")
    ELSE LoadFound(s, v, _localsearch(s, v), get_indexed_node(s, v))

\* self.save(self.callconstructor(cls, clsargs))
SaveNew(s) == IF ~Ok(s) THEN s ELSE save(s, s.ret[1])

\* the KeyError branch: the index value is taken from the object just saved
LoadSaved(s) == IF ~Ok(s) THEN s ELSE LoadUnique([s EXCEPT !.ret = <<>>], IdxValueOf(s, s.ret[1]))

\* v is Absent when the arguments do not hold the index value (KeyError)
load(s, v) ==
    IF ~s.classkeymap THEN Raise(s, "ValueError")
    ELSE IF v = Absent THEN LoadSaved(SaveNew(callconstructor(s, NoProps)))
    ELSE LoadUnique(s, v)

\* Store.load_or_create(cls, name=v)

OrCreate(s, v) ==
    IF ~Ok(s) \/ s.ret # <<>> THEN s
    ELSE SaveNew(callconstructor(s, [NoProps EXCEPT !["name"] = v]))

load_or_create(s, v) == OrCreate(load(s, v), v)

\* Store.load_indexed(index_name, key, value, cls)
Collected(s, sofar) == IF Ok(s) THEN [s EXCEPT !.ret = sofar \o @] ELSE s

RECURSIVE LoadNodes(_, _)
LoadNodes(s, ns) ==
    IF ns = <<>> \/ ~Ok(s) THEN s
    ELSE LoadNodes(ForNode(Collected(_construct_obj_from_node(s, Head(ns), Absent), s.ret), Head(ns), Held(s, Head(ns))), Tail(ns))

load_indexed(s, v) == LoadNodes(s, IndexedFrom(s, v, 1))

\* Store.refresh(subj)
refresh(s, o) ==
    IF ~s.obj[o].hasStore THEN Raise(s, "AttributeError")
    ELSE IF ~s.obj[o].bound THEN Raise(s, "BindError")
    ELSE ForNode(_construct_obj_from_node(s, s.obj[o].id, Absent), s.obj[o].id, Held(s, s.obj[o].id))

\* Store.constructobj(constructor, node), the step of load_cypher_nodes and
\* load_cypher_query for one node of a query result
LocalOrNew(s, n, local) ==
    IF local = -1 THEN Raise(s, "AssertionError")
    ELSE IF local > 0 THEN [s EXCEPT !.ret = <<local>>]
    ELSE Return(_register(s, s.ret[1], BoundNode(n), FALSE, FALSE, Absent), s.ret[1])

Constructed(s, n) == IF ~Ok(s) THEN s ELSE LocalOrNew(s, n, _localsearch(s, s.obj[s.ret[1]].attrs["name"]))

constructobj(s, n) == ForNode(Constructed(callconstructor(s, DbProps(s, n)), n), n, Held(s, n))

\* maxcount=None
NoMax == -1

\* Store.load_cypher_nodes(querystr, cls, maxcount=m) drained by its caller, for
\* a query whose rows hold the nodes ns in one column; count rows were taken.
\* ret collects the objects yielded; left holds the rows still in the stream of
\* self.db.cypher.stream when the loop is left by break, return or an exception.
RECURSIVE load_cypher_nodes(_, _, _, _)
\* 'count += 1' was done: break on 'count >= maxcount'
NodesCounted(s, ns, m, count) == IF ~Ok(s) \/ (m # NoMax /\ count >= m) THEN [s EXCEPT !.left = ns] ELSE load_cypher_nodes(s, ns, m, count)

load_cypher_nodes(s, ns, m, count) ==
    IF ns = <<>> \/ ~Ok(s) THEN s
    ELSE NodesCounted(Collected(constructobj(s, Head(ns)), s.ret), Tail(ns), m, count + 1)

\* Store.load_cypher_query(querystr, clsfact, maxcount=m) drained by its caller,
\* for the same kind of query (_yielded_value of a node is constructobj).
\* ret collects the objects yielded.
RECURSIVE load_cypher_query(_, _, _, _)
\* the row's values were built and 'count += 1' was done: return on
\* 'count > maxcount', else yield the row (sofar: what was yielded before it)
RowBuilt(s, sofar, ns, m, count) ==
    IF ~Ok(s) THEN [s EXCEPT !.left = ns]
    ELSE IF m # NoMax /\ count > m THEN [s EXCEPT !.ret = sofar, !.left = ns]
    ELSE load_cypher_query(s, ns, m, count)

load_cypher_query(s, ns, m, count) ==
    IF ns = <<>> \/ ~Ok(s) THEN s
    ELSE RowBuilt(Collected(constructobj(s, Head(ns)), s.ret), s.ret, Tail(ns), m, count + 1)

\* ------------------------------------------------------------------ relationships
\* node.match_outgoing(rel_type, end_node) / node.match_incoming() of database
\* node n, by id; a rel_type of None or an end node of 0 (None) matches any
RECURSIVE match_outgoing(_, _, _, _, _)
match_outgoing(s, n, t, m, r) ==
    IF r \notin RelId THEN <<>>
    ELSE (IF s.rels[r].state = "live" /\ s.rels[r].from = n /\ t \in {NoneVal, s.rels[r].type} /\ m \in {0, s.rels[r].to} THEN <<r>> ELSE <<>>) \o match_outgoing(s, n, t, m, r + 1)

RECURSIVE match_incoming(_, _, _)
match_incoming(s, n, r) ==
    IF r \notin RelId THEN <<>>
    ELSE (IF s.rels[r].state = "live" /\ s.rels[r].to = n THEN <<r>> ELSE <<>>) \o match_incoming(s, n, r + 1)

RelEntries(rs) == [i \in 1..Len(rs) |-> [isRel |-> TRUE, id |-> rs[i]]]

\* Store.relate(subj, rel_type, obj)
relate(s, a, t, b) ==
    IF s.readonly THEN Raise(s, "RuntimeError")
    ELSE [s EXCEPT !.newrels = Append(@, [from |-> a, to |-> b, type |-> t])]

\* Store.relate_new without its search of the relationships that are pending
relate_new_NoPendingTest(s, a, t, b) ==
    IF ~s.obj[a].hasStore \/ ~s.obj[b].hasStore THEN Raise(s, "AttributeError")
    ELSE IF s.obj[a].bound /\ s.obj[b].bound /\ s.obj[a].kind # "node" THEN Raise(s, "AttributeError")
    ELSE IF s.obj[a].bound /\ s.obj[b].bound /\ match_outgoing(s, s.obj[a].id, t, s.obj[b].id, 1) # <<>> THEN s
    ELSE relate(s, a, t, b)

\* Store.relate_new(subj, rel_type, obj)
relate_new(s, a, t, b) ==
    IF ~s.obj[a].hasStore \/ ~s.obj[b].hasStore THEN Raise(s, "AttributeError")
    ELSE IF \E k \in 1..Len(s.newrels) : s.newrels[k] = [from |-> a, to |-> b, type |-> t] THEN s
    ELSE IF s.obj[a].bound /\ s.obj[b].bound /\ s.obj[a].kind # "node" THEN Raise(s, "AttributeError")
    ELSE IF s.obj[a].bound /\ s.obj[b].bound /\ match_outgoing(s, s.obj[a].id, t, s.obj[b].id, 1) # <<>> THEN s
    ELSE relate(s, a, t, b)

\* Store.separate(subj)
separate(s, o) ==
    IF ~s.obj[o].hasStore THEN Raise(s, "AttributeError")
    ELSE IF ~s.obj[o].bound THEN Raise(s, "ValueError")
    ELSE IF s.obj[o].kind # "node" THEN Raise(s, "AttributeError")
    ELSE [s EXCEPT !.deletions = @ \o RelEntries(match_outgoing(s, s.obj[o].id, NoneVal, 0, 1))]

\* Store.separate_in(subj)
separate_in(s, o) ==
    IF ~s.obj[o].hasStore THEN Raise(s, "AttributeError")
    ELSE IF ~s.obj[o].bound THEN Raise(s, "ValueError")
    ELSE IF s.obj[o].kind # "node" THEN Raise(s, "AttributeError")
    ELSE [s EXCEPT !.deletions = @ \o RelEntries(match_incoming(s, s.obj[o].id, 1))]

SeparateIn(s, o) == IF Ok(s) THEN separate_in(s, o) ELSE s

AppendDeletion(s, o) == IF Ok(s) THEN [s EXCEPT !.deletions = Append(@, [isRel |-> FALSE, id |-> o])] ELSE s

\* Store.delete(subj) were it to record the object before it tests its node
delete_RecordFirst(s, o) ==
    IF ~s.obj[o].hasStore THEN Raise(s, "ValueError")
    ELSE IF s.readonly THEN Raise(s, "RuntimeError")
    ELSE IF ~s.obj[o].bound THEN Raise([s EXCEPT !.deletions = Append(@, [isRel |-> FALSE, id |-> o])], "ValueError")
    ELSE AppendDeletion(SeparateIn(separate(s, o), o), o)

\* Store.delete(subj) were it to record the object before its relationships
delete_NodeFirst(s, o) ==
    IF ~s.obj[o].hasStore THEN Raise(s, "ValueError")
    ELSE IF s.readonly THEN Raise(s, "RuntimeError")
    ELSE IF ~s.obj[o].bound THEN Raise(s, "ValueError")
    ELSE SeparateIn(separate(AppendDeletion(s, o), o), o)

\* Store.delete(subj)
delete(s, o) ==
    IF ~s.obj[o].hasStore THEN Raise(s, "ValueError")
    ELSE IF s.readonly THEN Raise(s, "RuntimeError")
    ELSE IF ~s.obj[o].bound THEN Raise(s, "ValueError")
    ELSE AppendDeletion(SeparateIn(separate(s, o), o), o)

\* ------------------------------------------------------------------ the batch
\* batch is self.batch: isNone, else its jobs in order, and sent, the number
\* of its jobs that an earlier submit has already posted to the database.
\* A job of the write batch.  A relationship's end is a bound node (its id) or
\* the batch position of the job that creates the node (isPos).
NoRef == [isPos |-> FALSE, n |-> 0, kind |-> "node"]

NoJob == [op |-> "", obj |-> 0, props |-> NoProps, from |-> NoRef, to |-> NoRef, type |-> "", id |-> 0, kind |-> "node", attr |-> "", val |-> "", pos |-> -1, orfail |-> FALSE]

AddJob(s, j) == [s EXCEPT !.batch.jobs = Append(@, j), !.built = @ + 1]

\* Store._new_nodes: the clients whose node is abstract, in iteration order
RECURSIVE _new_nodes(_, _)
_new_nodes(s, i) ==
    IF i > MaxObj THEN <<>>
    ELSE (IF i \in s.clients /\ is_abstract(s, i) /\ s.obj[i].hasStore THEN <<i>> ELSE <<>>) \o _new_nodes(s, i + 1)

\* Store._update_node_from_obj(subj): the dirty attributes go to the node, in
\* the order of AttrOrder, and the dirty set is emptied
RECURSIVE UpdateAttrs(_, _, _)
UpdateAttrs(s, o, k) ==
    IF k > Len(AttrOrder) THEN [s EXCEPT !.obj[o].dirty = {}]
    ELSE IF AttrOrder[k] \notin s.obj[o].dirty THEN UpdateAttrs(s, o, k + 1)
    ELSE IF ~ProperValue(s.obj[o].attrs[AttrOrder[k]]) THEN Raise(s, "ValueError")
    ELSE UpdateAttrs([s EXCEPT !.obj[o].props[AttrOrder[k]] = s.obj[o].attrs[AttrOrder[k]]], o, k + 1)

_update_node_from_obj(s, o) == UpdateAttrs(s, o, 1)

\* Store._batch_construct_create_nodes
CreateJob(s, o) ==
    IF ~Ok(s) THEN s
    ELSE AddJob([s EXCEPT !.obj[o].batchindex = s.batchindex, !.batchindex = @ + 1], [NoJob EXCEPT !.op = "create_node", !.obj = o, !.props = s.obj[o].props])

RECURSIVE CreateNodes(_, _)
CreateNodes(s, list) ==
    IF list = <<>> \/ ~Ok(s) THEN s
    ELSE CreateNodes(CreateJob(_update_node_from_obj(s, Head(list)), Head(list)), Tail(list))

_batch_construct_create_nodes(s) == CreateNodes(s, _new_nodes(s, 1))

\* Store._batch_construct_add_labels
_batch_construct_add_labels(s) == IF ~Ok(s) THEN s ELSE [s EXCEPT !.batchindex = @ + Len(_new_nodes(s, 1))]

\* The end of a relationship as _batch_construct_relate_nodes resolves it
EndRef(s, o) ==
    IF s.obj[o].bound THEN [isPos |-> FALSE, n |-> s.obj[o].id, kind |-> s.obj[o].kind]
    ELSE [isPos |-> TRUE, n |-> s.obj[o].batchindex, kind |-> "node"]

\* Store._batch_construct_relate_nodes
RECURSIVE RelateNodes(_, _)
RelateNodes(s, k) ==
    IF k > Len(s.newrels) \/ ~Ok(s) THEN s
    ELSE IF ~s.obj[s.newrels[k].from].hasStore \/ ~s.obj[s.newrels[k].to].hasStore THEN Raise(s, "AttributeError")
    ELSE RelateNodes(AddJob([s EXCEPT !.batchindex = @ + 1], [NoJob EXCEPT !.op = "create_rel", !.type = s.newrels[k].type, !.from = EndRef(s, s.newrels[k].from), !.to = EndRef(s, s.newrels[k].to)]), k + 1)

_batch_construct_relate_nodes(s) == RelateNodes(s, 1)

\* Store._batch_construct_new_index_entries (with _compute_batch_index):
\* add_to_index_or_fail only for a unique index on neo4j before 2.1.0
RECURSIVE IndexEntries(_, _)
IndexEntries(s, list) ==
    IF list = <<>> \/ ~Ok(s) THEN s
    ELSE IF ~s.obj[Head(list)].index THEN IndexEntries(s, Tail(list))
    ELSE IndexEntries(AddJob(s, [NoJob EXCEPT !.op = "add_to_index", !.obj = Head(list), !.val = s.obj[Head(list)].ivalue, !.pos = s.obj[Head(list)].batchindex, !.orfail = s.obj[Head(list)].unique /\ ~s.newneo]), Tail(list))

_batch_construct_new_index_entries(s) == IndexEntries(s, _new_nodes(s, 1))

\* Store._batch_construct_node_updates
RECURSIVE UpdateJobs(_, _, _)
UpdateJobs(s, o, k) ==
    IF k > Len(AttrOrder) THEN s
    ELSE IF AttrOrder[k] \notin s.obj[o].dirty THEN UpdateJobs(s, o, k + 1)
    ELSE IF ~ProperValue(s.obj[o].attrs[AttrOrder[k]]) THEN Raise(s, "ValueError")
    ELSE UpdateJobs(AddJob(s, [NoJob EXCEPT !.op = "set_property", !.obj = o, !.id = s.obj[o].id, !.kind = s.obj[o].kind, !.attr = AttrOrder[k], !.val = s.obj[o].attrs[AttrOrder[k]]]), o, k + 1)

RECURSIVE NodeUpdates(_, _)
NodeUpdates(s, list) ==
    IF list = <<>> \/ ~Ok(s) THEN s
    ELSE IF ~s.obj[Head(list)].hasStore THEN Raise(s, "AttributeError")
    ELSE IF ~s.obj[Head(list)].bound THEN NodeUpdates(s, Tail(list))
    ELSE NodeUpdates(UpdateJobs(s, Head(list), 1), Tail(list))

_batch_construct_node_updates(s) == NodeUpdates(s, ClientSeq(s, 1))

\* Everything Store keeps on an object (the _Store__store* attributes) removed
Detached(o) == [o EXCEPT !.hasStore = FALSE, !.store = 0, !.hasDirty = FALSE, !.dirty = {}, !.bound = FALSE, !.kind = "node", !.id = 0, !.props = NoProps, !.batchindex = -1, !.index = FALSE, !.unique = FALSE, !.ivalue = Absent]

\* One node of _batch_construct_deletions: the object leaves the identity map
\* and loses what Store keeps on it, and its node's deletion joins the batch
DeleteNode(s, o) == AddJob([s EXCEPT !.weaknoderefs = [i \in AnyId |-> IF i = s.obj[o].id THEN 0 ELSE @[i]], !.obj[o] = Detached(@)], [NoJob EXCEPT !.op = "delete_node", !.obj = o, !.id = s.obj[o].id, !.kind = s.obj[o].kind])

\* Store._batch_construct_deletions.  relid is the function's local variable
\* of that name (0: not assigned yet); delnodes is keyed by it.
RECURSIVE Deletions(_, _, _, _, _)
Deletions(s, k, relid, delrels, delnodes) ==
    IF k > Len(s.deletions) \/ ~Ok(s) THEN s
    ELSE IF s.deletions[k].isRel
    THEN IF s.deletions[k].id \in delrels THEN Deletions(s, k + 1, s.deletions[k].id, delrels, delnodes)
         ELSE Deletions(AddJob(s, [NoJob EXCEPT !.op = "delete_rel", !.id = s.deletions[k].id, !.kind = "rel"]), k + 1, s.deletions[k].id, delrels \cup {s.deletions[k].id}, delnodes)
    ELSE IF ~s.obj[s.deletions[k].id].hasStore THEN Raise(s, "AttributeError")
    ELSE IF s.obj[s.deletions[k].id].id \in delnodes THEN Deletions(s, k + 1, relid, delrels, delnodes)
    ELSE IF relid = 0 THEN Raise(DeleteNode(s, s.deletions[k].id), "UnboundLocalError")
    ELSE Deletions(DeleteNode(s, s.deletions[k].id), k + 1, relid, delrels, delnodes \cup {relid})

_batch_construct_deletions(s) == IF ~Ok(s) THEN s ELSE Deletions(s, 1, 0, {}, {})

\* ------------------------------------------------------------------ the database
\* batch.submit(): the jobs run in order in one transaction.  db is
\* [nodes, rels, index, results, ok, full]: ok turns FALSE when a job fails
\* (the whole batch is then rejected), full when the model's ids run out.
FreeNode(db) == {n \in NodeId : db.nodes[n].state = "free"}

FreeRel(db) == {r \in RelId : db.rels[r].state = "free"}

Min(S) == CHOOSE x \in S : \A y \in S : x <= y

\* The node a relationship end or an index job refers to (0: none)
Resolve(db, ref) ==
    IF ref.isPos
    THEN IF ref.n >= 0 /\ ref.n < Len(db.results) /\ db.results[ref.n + 1].kind = "node" THEN db.results[ref.n + 1].id ELSE 0
    ELSE IF ref.kind = "node" /\ ref.n \in NodeId /\ db.nodes[ref.n].state = "live" THEN ref.n ELSE 0

Fail(db) == [db EXCEPT !.ok = FALSE]

Result(db, kind, id) == [db EXCEPT !.results = Append(@, [kind |-> kind, id |-> id])]

CreateNodeJob(db, j, free) ==
    IF free = {} THEN [db EXCEPT !.full = TRUE]
    ELSE Result([db EXCEPT !.nodes[Min(free)] = [state |-> "live", props |-> j.props]], "node", Min(free))

CreateRelJob(db, type, from, to, free) ==
    IF from = 0 \/ to = 0 THEN Fail(db)
    ELSE IF free = {} THEN [db EXCEPT !.full = TRUE]
    ELSE Result([db EXCEPT !.rels[Min(free)] = [state |-> "live", from |-> from, to |-> to, type |-> type]], "rel", Min(free))

AddToIndexJob(db, j, n) ==
    IF n = 0 THEN Fail(db)
    ELSE IF j.orfail /\ (\E m \in NodeId : <<j.val, m>> \in db.index) THEN Fail(db)
    ELSE Result([db EXCEPT !.index = @ \cup {<<j.val, n>>}], "node", n)

SetPropertyJob(db, j) ==
    IF j.kind = "node"
    THEN IF j.id \in NodeId /\ db.nodes[j.id].state = "live" THEN Result([db EXCEPT !.nodes[j.id].props[j.attr] = j.val], "none", 0) ELSE Fail(db)
    ELSE IF j.id \in RelId /\ db.rels[j.id].state = "live" THEN Result(db, "none", 0) ELSE Fail(db)

DeleteRelJob(db, j) ==
    IF j.id \in RelId /\ db.rels[j.id].state = "live" THEN Result([db EXCEPT !.rels[j.id] = [state |-> "gone", from |-> 0, to |-> 0, type |-> ""]], "none", 0) ELSE Fail(db)

\* a node that still has relationships cannot be deleted
DeleteNodeJob(db, j) ==
    IF j.id \in NodeId /\ db.nodes[j.id].state = "live" /\ (\A r \in RelId : db.rels[r].state = "live" => db.rels[r].from # j.id /\ db.rels[r].to # j.id)
    THEN Result([db EXCEPT !.nodes[j.id] = [state |-> "gone", props |-> NoProps], !.index = {e \in @ : e[2] # j.id}], "none", 0)
    ELSE Fail(db)

RunJob(db, j) ==
    CASE j.op = "create_node" -> CreateNodeJob(db, j, FreeNode(db))
      [] j.op = "create_rel" -> CreateRelJob(db, j.type, Resolve(db, j.from), Resolve(db, j.to), FreeRel(db))
      [] j.op = "add_to_index" -> AddToIndexJob(db, j, Resolve(db, [isPos |-> TRUE, n |-> j.pos, kind |-> "node"]))
      [] j.op = "set_property" -> SetPropertyJob(db, j)
      [] j.op \in {"delete_rel", "delete_node"} /\ j.kind = "rel" -> DeleteRelJob(db, j)
      [] OTHER -> DeleteNodeJob(db, j)

RECURSIVE RunJobs(_, _, _)
RunJobs(db, jobs, k) ==
    IF k > Len(jobs) \/ ~db.ok \/ db.full THEN db
    ELSE RunJobs(RunJob(db, jobs[k]), jobs, k + 1)

submit(s) == RunJobs([nodes |-> s.nodes, rels |-> s.rels, index |-> s.index, results |-> <<>>, ok |-> TRUE, full |-> FALSE], s.batch.jobs, 1)

\* ------------------------------------------------------------------ commit
\* commit, after a successful submit: the new nodes are bound to the results
\* at their batch positions
Bind(s, o, res) ==
    IF res.kind = "none" THEN Raise(s, "AttributeError")
    ELSE [s EXCEPT !.obj[o].bound = TRUE, !.obj[o].kind = res.kind, !.obj[o].id = res.id, !.obj[o].props = NoProps, !.weaknoderefs[res.id] = o]

RECURSIVE BindNew(_, _, _)
BindNew(s, list, results) ==
    IF list = <<>> \/ ~Ok(s) THEN s
    ELSE BindNew(Bind(s, Head(list), results[s.obj[Head(list)].batchindex + 1]), Tail(list), results)

Finish(s) == IF Ok(s) THEN [abort(s) EXCEPT !.ret = <<>>] ELSE s

\* commit from batch.submit() on: db is what the database made of the jobs
Submitted(s, accept, db) ==
    IF ~Ok(s) THEN s
    ELSE IF db.full THEN Raise(s, "Bound")
    ELSE IF ~accept \/ ~db.ok THEN [Raise(s, "GraphError") EXCEPT !.submitted = s.batch.jobs, !.batch.sent = Len(s.batch.jobs)]
    ELSE Finish(BindNew([s EXCEPT !.nodes = db.nodes, !.rels = db.rels, !.index = db.index, !.submitted = s.batch.jobs, !.batch.sent = Len(s.batch.jobs)], _new_nodes(s, 1), db.results))

Submit(s, accept) == Submitted(s, accept, submit(s))

\* commit up to batch.submit(): the batch of an earlier commit that raised is
\* still there (only abort drops it), and the six phases add their jobs to it
Build(s) == _batch_construct_deletions(_batch_construct_add_labels(_batch_construct_node_updates(_batch_construct_new_index_entries(_batch_construct_relate_nodes(_batch_construct_create_nodes([s EXCEPT !.batch.isNone = FALSE, !.batchindex = 0]))))))

\* Store.commit.  accept: whether the database is reachable and takes the
\* batch if its jobs are valid.
commit(s, accept) == Submit(Build(s), accept)

\* Store.clean_store
clean_store(s) ==
    abort([s EXCEPT !.obj = [o \in Obj |-> IF \E id \in AnyId : s.weaknoderefs[id] = o THEN Detached(@[o]) ELSE @[o]], !.weaknoderefs = [id \in AnyId |-> 0]])

\* ------------------------------------------------------------------ actions
FreeSlots == {o \in Obj : ~obj[o].live}

RECURSIVE Ascending(_, _)
Ascending(S, i) ==
    IF i > MaxObj THEN <<>>
    ELSE (IF i \in S THEN <<i>> ELSE <<>>) \o Ascending(S, i + 1)

\* The slots a call may construct objects in: any free slot first
FreeSeqs == IF FreeSlots = {} THEN {<<>>} ELSE {<<o>> \o Ascending(FreeSlots \ {o}, 1) : o \in FreeSlots}

Start(fs) == [Cur EXCEPT !.free = fs]

\* History: the objects whose pending save an abort has discarded (abstract
\* clients when abort or clean_store was called) and that no save has taken
\* since, after call l left s
Discarded(s, l) ==
    IF l.op \in {"abort", "clean_store"} THEN last.aborted \cup {o \in clients : obj[o].hasStore /\ ~obj[o].bound}
    ELSE IF l.op \in {"save", "load", "load_or_create"} /\ Ok(s) THEN last.aborted \ {s.ret[i] : i \in 1..Len(s.ret)}
    ELSE last.aborted

\* The state after a call: the Store, the objects and the database as the call
\* left them, and what the call did (last).  An object the call constructed
\* that is neither registered nor returned is garbage.
Install(s, l) ==
    /\ s.err \notin {"NoSlot", "Bound"}
    /\ steps > 0
    /\ steps' = steps - 1
    /\ other' = other
    /\ readonly' = s.readonly
    /\ newneo' = s.newneo
    /\ classkeymap' = s.classkeymap
    /\ uniqueindexmap' = s.uniqueindexmap
    /\ clients' = s.clients
    /\ newrels' = s.newrels
    /\ deletions' = s.deletions
    /\ weaknoderefs' = s.weaknoderefs
    /\ batch' = s.batch
    /\ batchindex' = s.batchindex
    /\ obj' = [o \in Obj |-> IF ~obj[o].live /\ s.obj[o].live /\ o \notin s.clients /\ (~Ok(s) \/ \A i \in 1..Len(s.ret) : s.ret[i] # o) THEN BlankObj ELSE s.obj[o]]
    /\ nodes' = s.nodes
    /\ rels' = s.rels
    /\ index' = s.index
    /\ last' = [l EXCEPT !.err = s.err, !.ret = IF Ok(s) THEN s.ret ELSE <<>>, !.retnodes = IF Ok(s) THEN s.retnodes ELSE <<>>, !.prev = IF Ok(s) THEN s.prev ELSE <<>>, !.submitted = s.submitted, !.built = s.built, !.left = s.left, !.aborted = Discarded(s, l)]

\* store.save(Drone(name=v))
Save ==
    \E fs \in FreeSeqs, v \in PVal :
        Install(SaveNew(callconstructor(Start(fs), [NoProps EXCEPT !["name"] = v])), [NoLast EXCEPT !.op = "save", !.val = v])

\* store.save(subj) of an object the application already holds
SaveAgain ==
    \E o \in Obj :
        /\ obj[o].live
        /\ Install(save(Cur, o), [NoLast EXCEPT !.op = "save", !.o = o])

\* subj.<a> = v on an object the application holds
Write ==
    \E o \in Obj, a \in Attr :
      \E v \in WriteVal(a) :
        /\ obj[o].live
        /\ Install(_storesetattr(Cur, o, a, v), [NoLast EXCEPT !.op = "write", !.o = o, !.attr = a, !.val = v, !.old = obj[o].attrs[a], !.wasDirty = obj[o].dirty, !.wasClient = o \in clients])

\* The pending work, the dirty sets and the attributes before a call
Snapshot == [clients |-> clients, newrels |-> newrels, deletions |-> deletions, dirty |-> [o \in Obj |-> obj[o].dirty], abstract |-> {o \in clients : obj[o].hasStore /\ ~obj[o].bound}, attrs |-> [o \in Obj |-> obj[o].attrs]]

\* store.load_indexed('Drone', 'Drone', v, Drone)
LoadIndexed ==
    \E fs \in FreeSeqs, v \in PVal :
        Install(load_indexed(Start(fs), v), [NoLast EXCEPT !.op = "load_indexed", !.val = v, !.pre = Snapshot])

\* store.load(Drone, name=v)
Load ==
    \E fs \in FreeSeqs, v \in PVal :
        Install(load(Start(fs), v), [NoLast EXCEPT !.op = "load", !.val = v, !.pre = Snapshot, !.weak = weaknoderefs])

\* store.load(Drone), with no index value among the arguments
LoadBare ==
    \E fs \in FreeSeqs :
        Install(load(Start(fs), Absent), [NoLast EXCEPT !.op = "load", !.val = Absent, !.pre = Snapshot, !.weak = weaknoderefs])

\* store.load_or_create(Drone, name=v)
LoadOrCreate ==
    \E fs \in FreeSeqs, v \in PVal :
        Install(load_or_create(Start(fs), v), [NoLast EXCEPT !.op = "load_or_create", !.val = v, !.pre = Snapshot, !.weak = weaknoderefs])

\* store.load_cypher_node(query, Drone) for a query that returns node n
Query ==
    \E fs \in FreeSeqs, n \in NodeId :
        /\ nodes[n].state = "live"
        /\ Install(constructobj(Start(fs), n), [NoLast EXCEPT !.op = "query", !.pre = Snapshot, !.weak = weaknoderefs])

\* The results a query may have: up to MaxRows rows of one live node each
LiveNodes == {n \in NodeId : nodes[n].state = "live"}

QueryRows == UNION {[1..k -> LiveNodes] : k \in 0..MaxRows}

\* list(store.load_cypher_nodes(query, Drone, maxcount=m)).  The method never
\* closes the stream it iterates: whether a stream it leaves early is closed
\* is up to the driver and the garbage collector (closed).
QueryNodes ==
    \E fs \in FreeSeqs, ns \in QueryRows, m \in {NoMax} \cup (0..MaxRows), closed \in BOOLEAN :
        Install(load_cypher_nodes(Start(fs), ns, m, 0), [NoLast EXCEPT !.op = "load_cypher_nodes", !.rows = ns, !.maxcount = m, !.closed = closed, !.pre = Snapshot, !.weak = weaknoderefs])

\* list(store.load_cypher_query(query, Drone, maxcount=m))
QueryRecords ==
    \E fs \in FreeSeqs, ns \in QueryRows, m \in {NoMax} \cup (0..MaxRows), closed \in BOOLEAN :
        Install(load_cypher_query(Start(fs), ns, m, 0), [NoLast EXCEPT !.op = "load_cypher_query", !.rows = ns, !.maxcount = m, !.closed = closed, !.pre = Snapshot, !.weak = weaknoderefs])

\* store.refresh(subj)
Refresh ==
    \E fs \in FreeSeqs, o \in Obj :
        /\ obj[o].live
        /\ Install(refresh(Start(fs), o), [NoLast EXCEPT !.op = "refresh", !.o = o, !.pre = Snapshot, !.weak = weaknoderefs])

\* store.relate(subj, rel_type, obj)
Relate ==
    \E a \in Obj, b \in Obj, t \in RelType :
        /\ obj[a].live /\ obj[b].live
        /\ Install(relate(Cur, a, t, b), [NoLast EXCEPT !.op = "relate", !.o = a, !.type = t, !.to = b, !.pre = Snapshot])

\* store.relate_new(subj, rel_type, obj)
RelateNew ==
    \E a \in Obj, b \in Obj, t \in RelType :
        /\ obj[a].live /\ obj[b].live
        /\ Install(relate_new(Cur, a, t, b), [NoLast EXCEPT !.op = "relate_new", !.o = a, !.type = t, !.to = b, !.pre = Snapshot])

\* store.delete(subj)
Delete ==
    \E o \in Obj :
        /\ obj[o].live
        /\ Install(delete(Cur, o), [NoLast EXCEPT !.op = "delete", !.o = o, !.pre = Snapshot, !.weak = weaknoderefs])

\* store.separate(subj)
Separate ==
    \E o \in Obj :
        /\ obj[o].live
        /\ Install(separate(Cur, o), [NoLast EXCEPT !.op = "separate", !.o = o, !.pre = Snapshot])

\* store.commit(), against a database that takes the batch or refuses it
Commit ==
    \E accept \in BOOLEAN :
        /\ steps > 0
        /\ Install(commit(Cur, accept), [NoLast EXCEPT !.op = "commit", !.accept = accept, !.retry = (last.op = "commit" /\ last.err = "GraphError"), !.had = Len(batch.jobs), !.sent = batch.sent, !.pre = Snapshot])

\* store.abort()
Abort ==
    /\ steps > 0
    /\ Install(abort(Cur), [NoLast EXCEPT !.op = "abort", !.retry = (last.op = "commit" /\ last.err # ""), !.had = Len(batch.jobs), !.pre = Snapshot])

\* The state of the other Store (store 2): a second Store on the same
\* database, constructed like the first but not read-only, with nothing pending
Other == [Cur EXCEPT !.me = 2, !.readonly = FALSE, !.clients = other.clients, !.weaknoderefs = other.weaknoderefs, !.newrels = <<>>, !.deletions = <<>>, !.batch = [isNone |-> TRUE, jobs |-> <<>>, sent |-> 0]]

\* What a call on the other Store leaves: its own clients and identity map,
\* and the objects
InstallOther(s, l) ==
    /\ steps > 0
    /\ steps' = steps - 1
    /\ other' = [clients |-> s.clients, weaknoderefs |-> s.weaknoderefs]
    /\ obj' = s.obj
    /\ last' = [l EXCEPT !.err = s.err, !.ret = s.ret, !.aborted = last.aborted]
    /\ UNCHANGED <<readonly, newneo, classkeymap, uniqueindexmap, clients, newrels, deletions, weaknoderefs, batch, batchindex, nodes, rels, index>>

\* otherstore.save(subj) of an object the application holds
SaveOther ==
    \E o \in Obj :
        /\ obj[o].live
        /\ InstallOther(save(Other, o), [NoLast EXCEPT !.op = "save_other", !.o = o, !.pre = Snapshot, !.weak = weaknoderefs])

\* store.clean_store()
CleanStore ==
    /\ steps > 0
    /\ Install(clean_store(Cur), [NoLast EXCEPT !.op = "clean_store"])

\* The application drops its last reference to an object that the Store does
\* not hold strongly: the object is collected and its weak reference dies.
Collect ==
    \E o \in Obj :
        /\ obj[o].live
        /\ o \notin clients
        /\ o \notin other.clients
        /\ steps > 0
        /\ steps' = steps - 1
        /\ \A k \in 1..Len(newrels) : newrels[k].from # o /\ newrels[k].to # o
        /\ \A k \in 1..Len(deletions) : deletions[k].isRel \/ deletions[k].id # o
        /\ obj' = [obj EXCEPT ![o] = BlankObj]
        /\ weaknoderefs' = [id \in AnyId |-> IF weaknoderefs[id] = o THEN -1 ELSE weaknoderefs[id]]
        /\ last' = [NoLast EXCEPT !.op = "collect", !.o = o, !.aborted = last.aborted \ {o}]
        /\ UNCHANGED <<other, readonly, newneo, classkeymap, uniqueindexmap, clients, newrels, deletions, batch, batchindex, nodes, rels, index>>

\* A Store just constructed, before it is given a database, told of no class
Unconfigured ==
    /\ other = [clients |-> {}, weaknoderefs |-> [id \in AnyId |-> 0]]
    /\ readonly \in BOOLEAN
    /\ newneo \in BOOLEAN
    /\ clients = {}
    /\ newrels = <<>>
    /\ deletions = <<>>
    /\ weaknoderefs = [id \in AnyId |-> 0]
    /\ batch = [isNone |-> TRUE, jobs |-> <<>>, sent |-> 0]
    /\ batchindex = -1
    /\ obj = [o \in Obj |-> BlankObj]
    /\ last = NoLast

\* A Store told that the class has a unique index (as testme tells it)
Unconnected ==
    /\ Unconfigured
    /\ classkeymap = TRUE
    /\ uniqueindexmap = TRUE

\* The database that holds one indexed node
OneNode ==
    /\ nodes = [n \in NodeId |-> IF n = 1 THEN [state |-> "live", props |-> [NoProps EXCEPT !["name"] = "x"]] ELSE [state |-> "free", props |-> NoProps]]
    /\ rels = [r \in RelId |-> [state |-> "free", from |-> 0, to |-> 0, type |-> ""]]
    /\ index = {<<"x", 1>>}

\* A Store just constructed on a database that holds one indexed node
Fresh ==
    /\ Unconnected
    /\ OneNode

\* A Store just constructed on a database that holds two indexed nodes, a
\* relationship from the first to the second and one from the second to itself
FreshGraph ==
    /\ Unconnected
    /\ nodes = [n \in NodeId |-> IF n = 1 THEN [state |-> "live", props |-> [NoProps EXCEPT !["name"] = "x"]] ELSE IF n = 2 THEN [state |-> "live", props |-> [NoProps EXCEPT !["name"] = "y"]] ELSE [state |-> "free", props |-> NoProps]]
    /\ rels = [r \in RelId |-> IF r = 1 THEN [state |-> "live", from |-> 1, to |-> 2, type |-> "T"] ELSE IF r = 2 THEN [state |-> "live", from |-> 2, to |-> 2, type |-> "T"] ELSE [state |-> "free", from |-> 0, to |-> 0, type |-> ""]]
    /\ index = {<<"x", 1>>, <<"y", 2>>}

Init == Fresh /\ steps = MaxSteps

Next ==
    \/ Save
    \/ SaveAgain
    \/ Write
    \/ LoadIndexed
    \/ Load
    \/ LoadOrCreate
    \/ Query
    \/ Refresh
    \/ Relate
    \/ Delete
    \/ Separate
    \/ Commit
    \/ Abort
    \/ CleanStore
    \/ Collect

Spec == Init /\ [][Next]_vars
\* Commit after commit: a Store used only to save, load by index, write and
\* commit, explored over longer call sequences
InitRetry == Fresh /\ steps = MaxRetrySteps

NextRetry ==
    \/ Save
    \/ Write
    \/ LoadIndexed
    \/ Commit

SpecRetry == InitRetry /\ [][NextRetry]_vars

\* Deleting: a Store on a database with relationships, used to load by index,
\* write, delete, separate and commit
InitGraph == FreshGraph /\ steps = MaxGraphSteps

NextGraph ==
    \/ LoadIndexed
    \/ Write
    \/ Delete
    \/ Separate
    \/ Commit

SpecGraph == InitGraph /\ [][NextGraph]_vars

\* Classes: a Store told that the class has no index, a unique one or one
\* that is not, used to save, load and commit
InitClass ==
    /\ Unconfigured
    /\ classkeymap \in BOOLEAN
    /\ uniqueindexmap \in BOOLEAN
    /\ OneNode
    /\ steps = MaxClassSteps

NextClass ==
    \/ Save
    \/ Load
    \/ LoadBare
    \/ LoadOrCreate
    \/ Commit

SpecClass == InitClass /\ [][NextClass]_vars

\* Loading: a Store that creates objects by load_or_create only, used to load,
\* write, commit and abort
InitLoad == Fresh /\ steps = MaxLoadSteps

NextLoad ==
    \/ LoadOrCreate
    \/ Load
    \/ Write
    \/ Commit
    \/ Abort

SpecLoad == InitLoad /\ [][NextLoad]_vars

\* Two Stores: a Store used to save, load by index and commit, and cleaned,
\* next to another Store that is given the same objects to save
InitOwner == Fresh /\ steps = MaxOwnerSteps

NextOwner ==
    \/ Save
    \/ LoadIndexed
    \/ SaveOther
    \/ Commit
    \/ CleanStore

SpecOwner == InitOwner /\ [][NextOwner]_vars

\* Streaming reads: a Store on a database with two nodes, used to run queries,
\* write to the objects they yield and commit
InitQuery == FreshGraph /\ steps = MaxQuerySteps

NextQuery ==
    \/ QueryNodes
    \/ QueryRecords
    \/ Write
    \/ Commit

SpecQuery == InitQuery /\ [][NextQuery]_vars

\* Persisting: a Store used to save objects, write to them, refresh them,
\* commit and abort
InitPersist == Fresh /\ steps = MaxPersistSteps

NextPersist ==
    \/ Save
    \/ Write
    \/ Refresh
    \/ Commit
    \/ Abort

SpecPersist == InitPersist /\ [][NextPersist]_vars

\* Separating: a Store on a database with relationships, used to load by
\* index, relate, separate and commit
InitSeparate == FreshGraph /\ steps = MaxSeparateSteps

NextSeparate ==
    \/ LoadIndexed
    \/ Relate
    \/ RelateNew
    \/ Separate
    \/ Commit

SpecSeparate == InitSeparate /\ [][NextSeparate]_vars

\* Relating: a Store on a database with relationships, used to save, load by
\* index, relate and commit
InitRelate == FreshGraph /\ steps = MaxRelateSteps

NextRelate ==
    \/ Save
    \/ LoadIndexed
    \/ Relate
    \/ RelateNew
    \/ Commit

SpecRelate == InitRelate /\ [][NextRelate]_vars

\* Updating: a Store on a database with two nodes, used to load by index,
\* write and commit
InitUpdate == FreshGraph /\ steps = MaxUpdateSteps

NextUpdate ==
    \/ LoadIndexed
    \/ Write
    \/ Commit

SpecUpdate == InitUpdate /\ [][NextUpdate]_vars

\* ------------------------------------------------------------------ properties
\* A tracked object: one the Store has registered and not detached
Tracked(o) == obj[o].live /\ obj[o].hasStore

TrackedBefore == last.o \in Obj /\ Tracked(last.o)

\* C1: an operation that returns an object for persisted node n returns the
\* instance that the identity map held alive for n when it was called
C1_SameInstance ==
    \A i \in 1..Len(last.prev) : last.prev[i] # 0 => last.ret[i] = last.prev[i]

\* C2: when the database refuses the batch and commit raises, the clients,
\* the pending relationships, the pending deletions and every dirty set are
\* what they were just before the call
C2_CommitAtomic ==
    (last.op = "commit" /\ last.err = "GraphError") => Snapshot = last.pre

\* C3: a commit that follows a commit the database refused, and succeeds,
\* has submitted exactly the jobs it built from the pending work (nothing of
\* the refused attempt a second time)
C3_RetrySubmitsOnce ==
    (last.op = "commit" /\ last.retry /\ last.err = "") => Len(last.submitted) = last.built

\* C4: after a successful commit every object that was abstract among the
\* clients is bound to a node and is the object the identity map holds for that
\* node, every tracked object's dirty set is empty and nothing is pending
C4_AfterCommit ==
    (last.op = "commit" /\ last.err = "") =>
        /\ \A o \in last.pre.abstract : Tracked(o) /\ obj[o].bound /\ obj[o].kind = "node" /\ weaknoderefs[obj[o].id] = o
        /\ \A o \in Obj : Tracked(o) => obj[o].dirty = {}
        /\ clients = {} /\ newrels = <<>> /\ deletions = <<>>

\* C5: after abort nothing is pending, every tracked object's dirty set is
\* empty, the batch is dropped and nothing has been submitted
C5_AbortClears ==
    last.op = "abort" =>
        /\ ~transaction_pending(Cur)
        /\ \A o \in Obj : Tracked(o) => obj[o].dirty = {}
        /\ batch.isNone
        /\ last.submitted = <<>>

\* C5 happens: an abort right after a commit that raised, with jobs in the
\* batch and a tracked object that was dirty
C5_Witness ==
    /\ last.op = "abort" /\ last.retry /\ last.had > 0
    /\ \E o \in Obj : Tracked(o) /\ last.pre.dirty[o] # {}

\* C6: writing to an attribute of a tracked object the value it already has
\* raises nothing and leaves the object's dirty set and its membership of the
\* clients as they were, whether or not the Store is read-only
C6_DirtyNoOp ==
    (last.op = "write" /\ TrackedBefore /\ last.val = last.old) =>
        /\ last.err = ""
        /\ obj[last.o].dirty = last.wasDirty
        /\ (last.o \in clients) = last.wasClient

\* C6 happens: such a write on a read-only Store
C6_Witness == last.op = "write" /\ TrackedBefore /\ last.val = last.old /\ readonly

\* C7: after a successful commit every attribute that was dirty on a client
\* has, on the node the object is bound to, the value the object has
C7_WritePersisted ==
    (last.op = "commit" /\ last.err = "" /\ last.sent = 0) =>
        \A o \in last.pre.clients : (Tracked(o) /\ obj[o].bound /\ obj[o].kind = "node") =>
            \A a \in last.pre.dirty[o] : nodes[obj[o].id].props[a] = obj[o].attrs[a]

\* C8: a write that is refused, because the Store is read-only or the value
\* is an empty sequence, leaves the attribute, the dirty set and the object's
\* membership of the clients as they were
C8_RejectedWrite ==
    (last.op = "write" /\ TrackedBefore /\ last.err \in {"RuntimeError", "ValueError"}) =>
        /\ obj[last.o].attrs[last.attr] = last.old
        /\ obj[last.o].dirty = last.wasDirty
        /\ (last.o \in clients) = last.wasClient

\* C8 happens: a value-changing write refused by a read-only Store
C8_Witness == last.op = "write" /\ TrackedBefore /\ last.err = "RuntimeError" /\ last.val # last.old

\* C9: commit never raises the ValueError of _proper_attr_value (a value of
\* an unsupported type is refused when it is written, not when it is committed)
C9_CommitNeverValueError == ~(last.op = "commit" /\ last.err = "ValueError")

\* The phase of a job: create node, create relationship, add to index, set
\* property, delete
Rank(op) ==
    CASE op = "create_node" -> 1
      [] op = "create_rel" -> 2
      [] op = "add_to_index" -> 3
      [] op = "set_property" -> 4
      [] OTHER -> 5

\* C10: in the jobs a commit submits, creations of nodes come before
\* creations of relationships, these before index entries, these before
\* property updates, and these before deletions
C10_BatchOrder ==
    (last.op = "commit" /\ last.err = "" /\ last.sent = 0) =>
        \A i, j \in 1..Len(last.submitted) : i < j => Rank(last.submitted[i].op) <= Rank(last.submitted[j].op)

\* The positions (from 1) of the jobs of kind op for object o in what the
\* last commit submitted
JobsOf(op, o) == {k \in 1..Len(last.submitted) : last.submitted[k].op = op /\ last.submitted[k].obj = o}

\* C11: a commit submits one create-node job for each object that was
\* abstract among the clients and none for any other object, and the batch
\* position the object was given is the place of that job
C11_OneCreatePerNew ==
    (last.op = "commit" /\ last.err = "" /\ last.sent = 0) =>
        \A o \in Obj :
            IF o \in last.pre.abstract
            THEN JobsOf("create_node", o) = {obj[o].batchindex + 1}
            ELSE JobsOf("create_node", o) = {}

\* An end of a create-relationship job at place k of what the last commit
\* submitted is resolved: a bound node, or the batch position of a create-node
\* job that comes earlier in the same sequence
Resolved(ref, k) ==
    ref.isPos => (ref.n + 1 \in 1..(k - 1) /\ last.submitted[ref.n + 1].op = "create_node")

\* C12: no create-relationship job that a commit submits in a batch of its
\* own has, as an end, a batch position that is not the place of an earlier
\* create-node job of the same submission
C12_EndsResolved ==
    (last.op = "commit" /\ last.had = 0) =>
        \A k \in 1..Len(last.submitted) :
            (last.submitted[k].op = "create_rel" /\ last.submitted[k].from.n >= 0 /\ last.submitted[k].to.n >= 0) =>
                Resolved(last.submitted[k].from, k) /\ Resolved(last.submitted[k].to, k)

\* C13: a batch that a commit builds and the database accepts holds at most
\* one create-relationship job of the same type between the same two ends
C13_OneCreatePerRelation ==
    (last.op = "commit" /\ last.had = 0 /\ last.err = "") =>
        \A j, k \in JobsOf("create_rel", 0) :
            (/\ last.submitted[j].type = last.submitted[k].type
             /\ last.submitted[j].from = last.submitted[k].from
             /\ last.submitted[j].to = last.submitted[k].to) => j = k

\* C14: a commit submits one add-to-index job for each object that was
\* abstract among the clients and was saved with an index, with the object's
\* batch position and the index value of its save, and none for any other
\* object
C14_OneIndexEntryPerNew ==
    (last.op = "commit" /\ last.err = "" /\ last.sent = 0) =>
        \A o \in Obj :
            IF o \in last.pre.abstract /\ obj[o].index
            THEN /\ Cardinality(JobsOf("add_to_index", o)) = 1
                 /\ \A k \in JobsOf("add_to_index", o) :
                        last.submitted[k].pos = obj[o].batchindex /\ last.submitted[k].val = obj[o].ivalue
            ELSE JobsOf("add_to_index", o) = {}

\* C15: every add-to-index job of an accepted commit for an object saved as
\* unique is the one that fails on a collision, and the commit leaves no value
\* of the unique index on two nodes
C15_UniqueOrFail ==
    (last.op = "commit" /\ last.had = 0 /\ last.err = "") =>
        /\ \A k \in 1..Len(last.submitted) :
               (last.submitted[k].op = "add_to_index" /\ obj[last.submitted[k].obj].unique) => last.submitted[k].orfail
        /\ \A v \in PVal : Cardinality({n \in NodeId : <<v, n>> \in index}) <= 1

\* The objects that were bound among the clients before the last call
BoundBefore == {o \in last.pre.clients : o \notin last.pre.abstract}

\* C16: a commit submits one set-property job for each dirty attribute of
\* each object that was bound among the clients, to the object's node and with
\* the object's value, and no other set-property job
C16_OneSetPerDirty ==
    (last.op = "commit" /\ last.err = "" /\ last.sent = 0) =>
        \A o \in Obj, a \in Attr :
            IF o \in BoundBefore /\ a \in last.pre.dirty[o]
            THEN /\ Cardinality({k \in JobsOf("set_property", o) : last.submitted[k].attr = a}) = 1
                 /\ \A k \in JobsOf("set_property", o) :
                        last.submitted[k].attr = a => (last.submitted[k].id = obj[o].id /\ last.submitted[k].val = obj[o].attrs[a])
            ELSE {k \in JobsOf("set_property", o) : last.submitted[k].attr = a} = {}

\* C17: in what an accepted commit submitted from a batch of its own, no
\* deletion of a node comes before a deletion of a relationship
C17_RelsBeforeNodes ==
    (last.op = "commit" /\ last.had = 0 /\ last.err = "") =>
        \A j, k \in 1..Len(last.submitted) :
            (last.submitted[j].op = "delete_node" /\ last.submitted[k].op = "delete_rel") => k < j

\* The pending deletions before the last call named something twice
DeletedTwice == \E i, j \in 1..Len(last.pre.deletions) : i < j /\ last.pre.deletions[i] = last.pre.deletions[j]

\* C18: a commit whose pending deletions name a node or a relationship twice
\* raises nothing while it builds its batch, and what it submits deletes each
\* node and each relationship once
C18_DuplicatesTolerated ==
    (last.op = "commit" /\ last.had = 0 /\ DeletedTwice) =>
        /\ last.err \notin {"AttributeError", "UnboundLocalError"}
        /\ \A j, k \in 1..Len(last.submitted) :
               (/\ last.submitted[j].op \in {"delete_rel", "delete_node"}
                /\ last.submitted[j].op = last.submitted[k].op
                /\ last.submitted[j].id = last.submitted[k].id) => j = k

\* The places of the pending deletions that the last call added, but for the
\* last of them
AddedBeforeLast == (Len(last.pre.deletions) + 1)..(Len(deletions) - 1)

\* C19: a delete that succeeds leaves the pending deletions it found in place
\* and adds relationships only and then the object itself, and every
\* relationship of the database that leaves or enters the object's node is
\* among the relationships added
C19_DeleteAppends ==
    (last.op = "delete" /\ last.err = "") =>
        /\ Len(deletions) > Len(last.pre.deletions)
        /\ SubSeq(deletions, 1, Len(last.pre.deletions)) = last.pre.deletions
        /\ deletions[Len(deletions)] = [isRel |-> FALSE, id |-> last.o]
        /\ \A k \in AddedBeforeLast : deletions[k].isRel
        /\ \A r \in RelId :
               (rels[r].state = "live" /\ (rels[r].from = obj[last.o].id \/ rels[r].to = obj[last.o].id)) =>
                   \E k \in AddedBeforeLast : deletions[k] = [isRel |-> TRUE, id |-> r]

\* C19 (witness): a delete succeeded on an object whose node has a
\* relationship that leaves it and another that enters it
C19_Witness ==
    /\ last.op = "delete" /\ last.err = ""
    /\ \E r, q \in RelId :
           /\ r # q
           /\ rels[r].state = "live" /\ rels[r].from = obj[last.o].id
           /\ rels[q].state = "live" /\ rels[q].to = obj[last.o].id

\* C20: a delete of an object that the Store does not track, or whose node is
\* abstract, raises, and the pending deletions, the clients and the identity
\* map are as they were before the call
C20_DeleteNeedsBound ==
    (last.op = "delete" /\ (~obj[last.o].hasStore \/ ~obj[last.o].bound)) =>
        /\ last.err # ""
        /\ deletions = last.pre.deletions
        /\ clients = last.pre.clients
        /\ weaknoderefs = last.weak

\* C20 (witness): a delete was refused on an object saved in the transaction
\* that is still open
C20_Witness ==
    /\ last.op = "delete" /\ last.err = "ValueError"
    /\ last.o \in clients /\ obj[last.o].hasStore /\ ~obj[last.o].bound

\* The objects whose deletion was pending before the last call
DeletedObjs == {last.pre.deletions[k].id : k \in {j \in 1..Len(last.pre.deletions) : ~last.pre.deletions[j].isRel}}

\* C21: a commit, in a batch of its own, of pending deletions that name an
\* object and name nothing twice does not fail on a name or an attribute that
\* is not there, and when the database accepts it each deleted object has lost
\* its node, the identity map holds none of them and no transaction is pending
C21_DeleteDetaches ==
    (last.op = "commit" /\ last.had = 0 /\ DeletedObjs # {} /\ ~DeletedTwice) =>
        /\ last.err \notin {"UnboundLocalError", "AttributeError"}
        /\ last.err = "" =>
               /\ \A o \in DeletedObjs : ~obj[o].hasStore /\ (\A id \in AnyId : weaknoderefs[id] # o)
               /\ ~transaction_pending(Cur)

\* C22: on a read-only Store a relate or a relate_new of two tracked objects
\* raises RuntimeError and leaves the pending relationships as they were
C22_ReadOnlyRelate ==
    (last.op \in {"relate", "relate_new"} /\ readonly /\ Tracked(last.o) /\ Tracked(last.to)) =>
        last.err = "RuntimeError" /\ newrels = last.pre.newrels

\* The relationship the last call named
Named == [from |-> last.o, to |-> last.to, type |-> last.type]

\* The last call named a relationship that was pending, or that the database
\* holds between the nodes of its two objects
AlreadyThere ==
    \/ \E k \in 1..Len(last.pre.newrels) : last.pre.newrels[k] = Named
    \/ /\ obj[last.o].bound /\ obj[last.to].bound
       /\ \E r \in RelId : rels[r] = [state |-> "live", from |-> obj[last.o].id, to |-> obj[last.to].id, type |-> last.type]

\* C23: a relate_new of two tracked objects on a Store that can be written
\* leaves the pending relationships as they were when the relationship is
\* already pending or already in the database, and otherwise adds the
\* relationship it names, once, at their end
C23_RelateNew ==
    (last.op = "relate_new" /\ ~readonly /\ Tracked(last.o) /\ Tracked(last.to) /\ obj[last.o].kind = "node") =>
        /\ last.err = ""
        /\ newrels = IF AlreadyThere THEN last.pre.newrels ELSE Append(last.pre.newrels, Named)

\* C23 (witness): a relate_new named a relationship that was pending
C23_Witness ==
    /\ last.op = "relate_new" /\ last.err = "" /\ ~readonly
    /\ \E k \in 1..Len(last.pre.newrels) : last.pre.newrels[k] = Named

\* C24: a load or a load_or_create on a Store that was told of no index for
\* the class, or of an index that is not unique, raises, and leaves the
\* clients, the pending relationships and deletions and the identity map as
\* they were
C24_LoadNeedsUniqueIndex ==
    (last.op \in {"load", "load_or_create"} /\ (~classkeymap \/ ~uniqueindexmap)) =>
        /\ last.err # ""
        /\ clients = last.pre.clients
        /\ newrels = last.pre.newrels
        /\ deletions = last.pre.deletions
        /\ weaknoderefs = last.weak

\* The live objects, among the clients or in the identity map, that the Store
\* created for the index value of the last call (the value is recorded on the
\* object when it is saved), other than the one the call itself returned
MadeFor == {o \in Obj : obj[o].live /\ obj[o].hasStore /\ obj[o].index /\ obj[o].ivalue = last.val /\ last.ret # <<o>> /\ (o \in clients \/ \E id \in AnyId : weaknoderefs[id] = o)}

\* C25: on a Store that creates objects by load_or_create only, a load or a
\* load_or_create that succeeds leaves no live object of the Store created for
\* the same index value other than the one it returns, and no commit submits
\* two create-node jobs for objects created for the same index value
C25_LoadFindsCreated ==
    /\ (last.op \in {"load", "load_or_create"} /\ last.err = "" /\ last.val \in PVal) => MadeFor = {}
    /\ (last.op = "commit" /\ last.had = 0) =>
           \A j, k \in 1..Len(last.submitted) :
               (/\ last.submitted[j].op = "create_node" /\ last.submitted[k].op = "create_node"
                /\ obj[last.submitted[j].obj].ivalue = obj[last.submitted[k].obj].ivalue) => j = k

\* The bound objects that the last call found alive in the identity map, by
\* their node (refresh) or among what it returned
FoundAlive ==
    IF last.op = "refresh" THEN {o \in {last.o} : obj[o].bound /\ last.weak[obj[o].id] = o}
    ELSE {last.ret[i] : i \in {j \in 1..Len(last.ret) : j <= Len(last.prev) /\ last.prev[j] = last.ret[j]}}

\* C26: after a refresh, or a load that finds the object alive in the
\* identity map, each attribute that was dirty has the value it had and is
\* still dirty, and each other attribute that the node holds has the node's
\* value and is not dirty
C26_DirtyPrecedence ==
    (last.op \in {"refresh", "load", "load_or_create", "load_indexed", "query"} /\ last.err = "") =>
        \A o \in FoundAlive, a \in Attr :
            IF a \in last.pre.dirty[o]
            THEN a \in obj[o].dirty /\ obj[o].attrs[a] = last.pre.attrs[o][a]
            ELSE DbProps(Cur, obj[o].id)[a] # Absent => (obj[o].attrs[a] = DbProps(Cur, obj[o].id)[a] /\ a \notin obj[o].dirty)

\* C27: after a refresh, or a load that finds the object alive in the
\* identity map, an object with no dirty attribute and with no attribute that
\* its node lacks is not among the clients
C27_CleanLeavesClients ==
    (last.op \in {"refresh", "load_indexed", "query"} /\ last.err = "") =>
        \A o \in FoundAlive :
            (obj[o].dirty = {} /\ \A a \in _safe_attr_names(Cur, o) : DbProps(Cur, obj[o].id)[a] # Absent) => o \notin clients

\* C28: when the other Store is asked to save an object that this Store
\* owns, the call raises, the object stays as it was, owned by this Store,
\* and the other Store's clients and identity map stay as they were
C28_ExclusiveOwner ==
    [][(last'.op = "save_other" /\ obj[last'.o].store = 1) =>
           (last'.err # "" /\ obj'[last'.o] = obj[last'.o] /\ other' = other)]_vars

\* C28 (witness): the other Store was asked to save an object that this Store
\* had saved, and refused
C28_Witness ==
    /\ last.op = "save_other" /\ last.err = "AssertionError"
    /\ obj[last.o].store = 1 /\ last.o \in clients /\ last.o \notin other.clients

\* C29: when a query fails on an assertion, as it does when it registers an
\* object for a node that the identity map holds alive, the identity map is as
\* it was and no object has joined the clients
C29_RegisterNeverOverwrites ==
    (last.op = "query" /\ last.err = "AssertionError") =>
        weaknoderefs = last.weak /\ clients \subseteq last.pre.clients

\* C30: a streaming read given a maximum count n >= 0 yields at most n results
\* and constructs an object for at most n rows
C30_MaxCountBound ==
    (last.op \in {"load_cypher_nodes", "load_cypher_query"} /\ last.maxcount >= 0 /\ last.err = "") =>
        Len(last.ret) <= last.maxcount /\ Len(last.retnodes) <= last.maxcount

\* C31: after a streaming read that ended with rows still in the backend
\* stream, the stream has been closed
C31_StreamClosed ==
    (last.op \in {"load_cypher_nodes", "load_cypher_query"} /\ last.left # <<>>) => last.closed

\* The objects a read returned (refresh: the object refreshed)
ReadObjs == IF last.op = "refresh" THEN {last.o} ELSE {last.ret[i] : i \in 1..Len(last.ret)}

\* Object o is bound to a node and has no dirty attribute and the attribute
\* values that its node holds
SameAsNode(o) == obj[o].bound /\ obj[o].dirty = {} /\ \A a \in Attr : obj[o].attrs[a] = DbProps(Cur, obj[o].id)[a]

\* C32: a read made while no transaction is pending, returning only persisted
\* objects whose state does not differ from their nodes, leaves no transaction
\* pending
C32_ReadsNotPending ==
    (/\ last.op \in {"load", "load_indexed", "query", "refresh"}
     /\ last.err = ""
     /\ last.pre.clients = {} /\ last.pre.newrels = <<>> /\ last.pre.deletions = <<>>
     /\ ReadObjs # {}
     /\ \A o \in ReadObjs : SameAsNode(o)) =>
        ~transaction_pending(Cur)

\* C33: after clean_store no object carries anything the Store keeps on it,
\* and the identity map, the clients and the pending relationships and
\* deletions are empty
C33_CleanStoreDetachesAll ==
    last.op = "clean_store" =>
        /\ \A o \in Obj : obj[o].live => (~obj[o].hasStore /\ ~obj[o].hasDirty /\ obj[o].store # 1)
        /\ \A id \in AnyId : weaknoderefs[id] = 0
        /\ clients = {} /\ newrels = <<>> /\ deletions = <<>>

\* C34: a commit of a read-only Store that starts from an empty batch and is
\* accepted by the database has submitted no job that creates, sets a
\* property, adds to an index or deletes
C34_ReadOnlyNeverWrites ==
    (last.op = "commit" /\ readonly /\ last.had = 0 /\ last.err = "") =>
        \A k \in 1..Len(last.submitted) :
            last.submitted[k].op \notin {"create_node", "create_rel", "add_to_index", "set_property", "delete_rel", "delete_node"}

\* C35: after a commit that the database accepted, no object whose pending
\* save an abort discarded, and that was not saved again, is bound to a node
C35_AbortDiscardsSaves ==
    (last.op = "commit" /\ last.err = "") => \A o \in last.aborted : ~obj[o].bound

\* C36: after a commit that starts from an empty batch and is accepted, each
\* object that was a client and is bound has, for every attribute it holds a
\* value of, that value in its node
C36_PersistedEqualsObject ==
    (last.op = "commit" /\ last.err = "" /\ last.had = 0) =>
        \A o \in last.pre.clients :
            (obj[o].live /\ obj[o].bound) =>
                \A a \in Attr : obj[o].attrs[a] \notin {Absent, NoneVal} => DbProps(Cur, obj[o].id)[a] = obj[o].attrs[a]

\* C37: when a relate_new that returned without error is followed by a commit
\* that starts from an empty batch and is accepted, the database then holds a
\* relationship of the type named from the node of the first object to the
\* node of the second
C37_RelateNewPersists ==
    [][(/\ last.op = "relate_new" /\ last.err = ""
        /\ last'.op = "commit" /\ last'.err = "" /\ last'.had = 0) =>
           (/\ obj'[last.o].bound /\ obj'[last.to].bound
            /\ \E r \in RelId : /\ rels'[r].state = "live"
                                /\ rels'[r].type = last.type
                                /\ rels'[r].from = obj'[last.o].id
                                /\ rels'[r].to = obj'[last.to].id)]_vars

\* C38: every object that the Store tracks and that has a dirty attribute is
\* among the Store's clients, so a transaction is pending
C38_DirtyIsClient ==
    \A o \in Obj :
        (obj[o].live /\ obj[o].hasStore /\ obj[o].store = 1 /\ obj[o].dirty # {}) =>
            (o \in clients /\ transaction_pending(Cur))

\* C38 (witness): a write to a tracked object that was not among the clients
\* has made an attribute dirty and the object a client
C38_Witness ==
    /\ last.op = "write" /\ last.err = "" /\ ~last.wasClient
    /\ obj[last.o].hasStore /\ obj[last.o].store = 1
    /\ last.attr \in obj[last.o].dirty
    /\ last.o \in clients

====
